---------------------------- MODULE Spec2Model ----------------------------
(***************************************************************************)
(* A model of DataQualityChecker (src/data_quality_checker.py): the engine *)
(* object (file_path, df, file_name, quality_report), its public methods   *)
(* as actions, and the checks as operators over a small tabular dataset.   *)
(*                                                                         *)
(* Representation.  A string is a tuple of one-character strings, so that  *)
(* split, endswith, replace and isdigit are computed character by          *)
(* character.  A cell is a record [k, n, s]: k = "null" (NaN/None),        *)
(* "num" (a number n), "str" (a string s) or "time" (a timestamp, day n).  *)
(* A float result is a record [k, num, den]: k = "num" (the rational       *)
(* num/den), "nan" or "inf"; the model keeps the exact rational the        *)
(* floating-point computation approximates.  An absent value (None, an     *)
(* empty string) is the empty tuple.                                       *)
(***************************************************************************)
EXTENDS Integers, Sequences, FiniteSets, TLC

VARIABLES file_path, df, file_name, quality_report, last

vars == <<file_path, df, file_name, quality_report, last>>

-----------------------------------------------------------------------------
(* Bounds of the model *)

\* lifecycle specification: rows of the (one-column) datasets an engine holds
LifeRows == 1
\* missing-value / duplicate specification: columns and rows
FrameCols == 2
FrameRows == 3
\* outlier specification: rows of the single column
OutlierRows == 5
\* sample-inspection specification: rows of the single column
SampleRows == 5

\* InspectColumnSamples(self, sample_size=3)
DefaultSampleSize == 3

-----------------------------------------------------------------------------
(* Strings *)

Digits == {"0", "1", "2", "3", "4", "5", "6", "7", "8", "9"}

DigitChar(d) == <<"0", "1", "2", "3", "4", "5", "6", "7", "8", "9">>[d + 1]

RECURSIVE NatToChars(_)
NatToChars(n) ==
    IF n < 10 THEN <<DigitChar(n)>>
    ELSE NatToChars(n \div 10) \o <<DigitChar(n % 10)>>

\* str(n) of an integer
IntToChars(n) == IF n < 0 THEN <<"-">> \o NatToChars(-n) ELSE NatToChars(n)

\* s.endswith(suf)
EndsWith(s, suf) ==
    /\ Len(s) >= Len(suf)
    /\ SubSeq(s, Len(s) - Len(suf) + 1, Len(s)) = suf

\* s.split("/")[-1]: what follows the last "/"
Basename(s) ==
    LET slashes == {i \in 1..Len(s) : s[i] = "/"}
        from == IF slashes = {} THEN 1
                ELSE (CHOOSE i \in slashes : \A j \in slashes : j <= i) + 1
    IN SubSeq(s, from, Len(s))

\* s.replace(".", "", 1): the first "." removed, if there is one
ReplaceFirstDot(s) ==
    LET dots == {i \in 1..Len(s) : s[i] = "."}
    IN IF dots = {} THEN s
       ELSE LET i == CHOOSE i \in dots : \A j \in dots : i <= j
            IN SubSeq(s, 1, i - 1) \o SubSeq(s, i + 1, Len(s))

\* s.isdigit(): non-empty and every character a digit
IsDigit(s) == Len(s) > 0 /\ \A i \in 1..Len(s) : s[i] \in Digits

-----------------------------------------------------------------------------
(* Cells, columns, frames *)

Null == [k |-> "null", n |-> 0, s |-> <<>>]
Num(i) == [k |-> "num", n |-> i, s |-> <<>>]
Str(s) == [k |-> "str", n |-> 0, s |-> s]
Time(d) == [k |-> "time", n |-> d, s |-> <<>>]

IsNull(c) == c.k = "null"

ColNames == <<<<"a">>, <<"b">>, <<"c">>, <<"d">>>>

\* dtype strings, as str(df[col].dtype) gives them
Int64 == <<"i", "n", "t", "6", "4">>
Float64 == <<"f", "l", "o", "a", "t", "6", "4">>
Object == <<"o", "b", "j", "e", "c", "t">>
Datetime64 == <<"d", "a", "t", "e", "t", "i", "m", "e", "6", "4", "[", "n", "s", "]">>

NoDF == [some |-> FALSE, nrows |-> 0, cols |-> <<>>]

\* len(self.df)
NRows(d) == d.nrows
\* len(self.df.columns)
NCols(d) == Len(d.cols)

ColIdx(d) == 1..Len(d.cols)

\* Series.dropna(): the non-null cells, in order
DropNa(vals) == SelectSeq(vals, LAMBDA c : ~IsNull(c))

\* the elements of a sequence, first occurrences kept, in order (Series.unique())
RECURSIVE Unique(_)
Unique(s) ==
    IF s = <<>> THEN <<>>
    ELSE LET front == Unique(SubSeq(s, 1, Len(s) - 1))
             x == s[Len(s)]
         IN IF \E i \in 1..Len(front) : front[i] = x THEN front
            ELSE Append(front, x)

\* s[:n]
Prefix(s, n) == SubSeq(s, 1, IF n < Len(s) THEN n ELSE Len(s))

\* astype(str) of one non-null cell of a column of the given dtype
AsStr(dtype, c) ==
    CASE c.k = "str" -> c.s
      [] c.k = "num" /\ dtype = Float64 -> IntToChars(c.n) \o <<".", "0">>
      [] c.k = "num" /\ dtype # Float64 -> IntToChars(c.n)
      [] c.k = "time" -> <<"2", "0", "2", "4", "-", "0", "1", "-", "0">> \o NatToChars(c.n)
      [] OTHER -> <<"n", "a", "n">>

AsStrSeq(dtype, vals) == [i \in 1..Len(vals) |-> AsStr(dtype, vals[i])]

\* select_dtypes(include=[np.number]) / ["object"] / ["datetime64"]
IsNumeric(col) == col.dtype \in {Int64, Float64}
IsObject(col) == col.dtype = Object
IsDatetime(col) == col.dtype = Datetime64

\* the names of the columns whose dtype is one of dtypes, in column order
ColumnsOfDtypes(d, dtypes) ==
    LET idx == SelectSeq([i \in 1..Len(d.cols) |-> i], LAMBDA i : d.cols[i].dtype \in dtypes)
    IN [j \in 1..Len(idx) |-> d.cols[idx[j]].name]

\* the column named nm
ColByName(d, nm) == d.cols[CHOOSE i \in ColIdx(d) : d.cols[i].name = nm]

ColNameSet(d) == {d.cols[i].name : i \in ColIdx(d)}

RECURSIVE SumSeq(_)
SumSeq(s) == IF s = <<>> THEN 0 ELSE s[1] + SumSeq(Tail(s))

-----------------------------------------------------------------------------
(* Floating-point results *)

NaN == [k |-> "nan", num |-> 0, den |-> 1]
Inf == [k |-> "inf", num |-> 0, den |-> 1]
Rat(a, b) == [k |-> "num", num |-> a, den |-> b]

\* a / b of a numpy integer (or Series) by an int: 0/0 is NaN, x/0 is inf, no raise
NpDiv(a, b) ==
    IF b # 0 THEN Rat(a, b)
    ELSE IF a = 0 THEN NaN ELSE Inf

\* f * 100
Times100(f) == IF f.k = "num" THEN Rat(f.num * 100, f.den) ELSE f

\* format(f, ".1f"): the tenths nearest to f, or the text of a non-number
Format1f(f) ==
    IF f.k = "num"
    THEN [k |-> "num", tenths |-> (20 * f.num + f.den) \div (2 * f.den)]
    ELSE [k |-> f.k, tenths |-> 0]

-----------------------------------------------------------------------------
(* The checks.  Each takes the dataset and the report and gives            *)
(* [exc, report]: exc is the empty tuple when the check returns, else the  *)
(* exception it raises; report is quality_report as the check leaves it.   *)

NoExc == <<>>
AttributeError == <<"AttributeError">>
ValueError == <<"ValueError">>
ZeroDivisionError == <<"ZeroDivisionError">>
KeyError == <<"KeyError">>

Returned(rep) == [exc |-> NoExc, report |-> rep]
Raised(e, rep) == [exc |-> e, report |-> rep]

\* self.quality_report[key] = value
SetKey(rep, key, value) == (key :> value) @@ rep

EmptyReport == <<>>

\* self.df.isnull().sum(), for one column
MissingCount(col) == Len(SelectSeq(col.vals, IsNull))

\* the mutant divides by the number of non-null entries
MissingPercentage_mut_nonnull(missing, d) == Times100(NpDiv(missing, NRows(d) - missing))

\* (missing_data / len(self.df)) * 100, for one column
MissingPercentage(missing, d) == Times100(NpDiv(missing, NRows(d)))

CheckMissingValues(d, rep) ==
    IF ~d.some THEN Raised(AttributeError, rep)
    ELSE LET missing_data == [nm \in ColNameSet(d) |-> MissingCount(ColByName(d, nm))]
             missing_percentage ==
                 [nm \in ColNameSet(d) |-> MissingPercentage(missing_data[nm], d)]
         IN Returned(SetKey(rep, "missing_values",
                [total_missing |-> SumSeq([i \in ColIdx(d) |-> MissingCount(d.cols[i])]),
                 missing_by_column |-> missing_data,
                 missing_percentage_by_column |-> missing_percentage,
                 columns_with_missing |->
                     LET idx == SelectSeq([i \in ColIdx(d) |-> i],
                                          LAMBDA i : MissingCount(d.cols[i]) > 0)
                     IN [j \in 1..Len(idx) |-> d.cols[idx[j]].name]]))

CheckDataTypes(d, rep) ==
    IF ~d.some THEN Raised(AttributeError, rep)
    ELSE Returned(SetKey(rep, "data_types",
            [column_types |-> [nm \in ColNameSet(d) |-> ColByName(d, nm).dtype],
             numeric_columns |-> ColumnsOfDtypes(d, {Int64, Float64}),
             categorical_columns |-> ColumnsOfDtypes(d, {Object}),
             datetime_columns |-> ColumnsOfDtypes(d, {Datetime64})]))

\* row i of the frame, across all columns
Row(d, i) == [j \in ColIdx(d) |-> d.cols[j].vals[i]]

\* DataFrame.duplicated() with keep="first": row i repeats an earlier row
\* (a null cell equals a null cell)
Duplicated(d, i) == \E j \in 1..(i - 1) : Row(d, j) = Row(d, i)

\* the mutant marks every occurrence of a repeated row (keep=False)
DuplicatedCount_mut_keep(d) ==
    Cardinality({i \in 1..NRows(d) :
                    \E j \in 1..NRows(d) : j # i /\ Row(d, j) = Row(d, i)})

\* self.df.duplicated().sum()
DuplicatedCount(d) == Cardinality({i \in 1..NRows(d) : Duplicated(d, i)})

CheckDuplicates(d, rep) ==
    IF ~d.some THEN Raised(AttributeError, rep)
    ELSE LET duplicate_rows == DuplicatedCount(d)
         IN Returned(SetKey(rep, "duplicates",
                [total_duplicate_rows |-> duplicate_rows,
                 duplicate_percentage |-> Times100(NpDiv(duplicate_rows, NRows(d)))]))

\* the non-null numbers of a column, ascending
SortedValues(col) ==
    LET nn == DropNa(col.vals)
    IN SortSeq([i \in 1..Len(nn) |-> nn[i].n], LAMBDA x, y : x < y)

\* 4 * Series.quantile(q4 / 4), linear interpolation between the order
\* statistics around position (q4 / 4) * (n - 1); v is ascending and non-empty
Quantile4(v, q4) ==
    LET pos4 == q4 * (Len(v) - 1)
        lo == pos4 \div 4
        fr == pos4 % 4
    IN IF fr = 0 THEN 4 * v[lo + 1]
       ELSE 4 * v[lo + 1] + fr * (v[lo + 2] - v[lo + 1])

\* the mutant adds the fence to Q1 instead of subtracting it
LowerBound8_mut_sign(q1, q3) == 2 * q1 + 3 * (q3 - q1)

\* 8 * (Q1 - 1.5 * IQR), from 4 * Q1 and 4 * Q3
LowerBound8(q1, q3) == 2 * q1 - 3 * (q3 - q1)

\* 8 * (Q3 + 1.5 * IQR), from 4 * Q1 and 4 * Q3
UpperBound8(q1, q3) == 2 * q3 + 3 * (q3 - q1)

\* the record of one numeric column; the quantiles of a column with no
\* non-null value are NaN, and so are the bounds computed from them
OutlierRecord(d, col) ==
    LET v == SortedValues(col)
        Q1 == Quantile4(v, 1)
        Q3 == Quantile4(v, 3)
        lower_bound == LowerBound8(Q1, Q3)
        upper_bound == UpperBound8(Q1, Q3)
        outlier_count ==
            Len(SelectSeq(col.vals, LAMBDA c : /\ ~IsNull(c)
                                               /\ \/ 8 * c.n < lower_bound
                                                  \/ 8 * c.n > upper_bound))
    IN IF v = <<>>
       THEN [outlier_count |-> 0,
             outlier_percentage |-> Times100(NpDiv(0, NRows(d))),
             lower_bound |-> NaN,
             upper_bound |-> NaN]
       ELSE [outlier_count |-> outlier_count,
             outlier_percentage |-> Times100(NpDiv(outlier_count, NRows(d))),
             lower_bound |-> Rat(lower_bound, 8),
             upper_bound |-> Rat(upper_bound, 8)]

\* the numeric columns the loop does not skip
OutlierColumns(d) ==
    {d.cols[i].name : i \in {j \in ColIdx(d) :
        IsNumeric(d.cols[j]) /\ DropNa(d.cols[j].vals) # <<>>}}

CheckNumericOutliers(d, rep) ==
    IF ~d.some THEN Raised(AttributeError, rep)
    ELSE Returned(SetKey(rep, "outliers",
            [nm \in OutlierColumns(d) |-> OutlierRecord(d, ColByName(d, nm))]))

\* Series.nunique(dropna=True): a Python int
NUnique(col) == Len(Unique(DropNa(col.vals)))

CheckCardinality(d, rep) ==
    IF ~d.some THEN Raised(AttributeError, rep)
    ELSE LET categorical == {d.cols[i].name : i \in {j \in ColIdx(d) : IsObject(d.cols[j])}}
         IN \* int / int: Python raises on a zero divisor, inside the loop
            IF categorical # {} /\ NRows(d) = 0 THEN Raised(ZeroDivisionError, rep)
            ELSE Returned(SetKey(rep, "cardinality",
                    [nm \in categorical |->
                        [unique_values |-> NUnique(ColByName(d, nm)),
                         cardinality_percentage |->
                             Rat(NUnique(ColByName(d, nm)) * 100, NRows(d)),
                         high_cardinality |-> 2 * NUnique(ColByName(d, nm)) > NRows(d)]]))

\* describe() refuses a frame without columns; the moments themselves are
\* not modelled, only the columns they are keyed by and the count row
GenerateSummaryStatistics(d, rep) ==
    IF ~d.some THEN Raised(AttributeError, rep)
    ELSE LET numeric_cols == {d.cols[i].name : i \in {j \in ColIdx(d) : IsNumeric(d.cols[j])}}
         IN IF numeric_cols = {} THEN Raised(ValueError, rep)
            ELSE Returned(SetKey(rep, "summary_statistics",
                    [describe |-> [nm \in numeric_cols |->
                                      [count |-> Len(DropNa(ColByName(d, nm).vals))]],
                     skewness |-> numeric_cols,
                     kurtosis |-> numeric_cols]))

NoValues == <<"<", "n", "o", " ", "n", "o", "n", "-", "n", "u", "l", "l", " ",
              "v", "a", "l", "u", "e", "s", ">">>

\* the advisory note, kept as one piece: only its emptiness is ever tested
Note == <<"POSSIBLE NUMERIC STORED AS STRING">>

\* s.replace(".", "", 1).isdigit()
NumericLike(s) == IsDigit(ReplaceFirstDot(s))

\* the mutant does not slice the distinct values
Samples_mut_noslice(col, sample_size) ==
    LET samples == Unique(AsStrSeq(col.dtype, DropNa(col.vals)))
    IN IF Len(samples) = 0 THEN <<NoValues>> ELSE samples

\* dropna().astype(str).unique()[:sample_size], or the placeholder
Samples(col, sample_size) ==
    LET samples == Prefix(Unique(AsStrSeq(col.dtype, DropNa(col.vals))), sample_size)
    IN IF Len(samples) = 0 THEN <<NoValues>> ELSE samples

\* the mutant attaches the note at 60% too
Flag_mut_ge(col, samples) ==
    IF col.dtype = Object
    THEN LET numeric_like == Len(SelectSeq(samples, NumericLike))
         IN IF Len(samples) > 0 /\ 10 * numeric_like >= 6 * Len(samples)
            THEN Note ELSE <<>>
    ELSE <<>>

\* the note of one column: numeric_like / len(samples) > 0.6
Flag(col, samples) ==
    IF col.dtype = Object
    THEN LET numeric_like == Len(SelectSeq(samples, NumericLike))
         IN IF Len(samples) > 0 /\ 10 * numeric_like > 6 * Len(samples)
            THEN Note ELSE <<>>
    ELSE <<>>

InspectColumnSamples(d, rep, sample_size) ==
    IF ~d.some THEN Raised(AttributeError, rep)
    ELSE Returned(SetKey(rep, "sample_inspection",
            [i \in ColIdx(d) |->
                LET samples == Samples(d.cols[i], sample_size)
                IN [col |-> d.cols[i].name,
                    detected_type |-> d.cols[i].dtype,
                    sample_values |-> samples,
                    notes |-> Flag(d.cols[i], samples)]]))

-----------------------------------------------------------------------------
(* The engine *)

\* what the last call gave back: the exception it raised (exc), or its
\* return value (kind: "None", "bool", "report", "text", "bytes")
Ret(kind, ok, rep, text) == [kind |-> kind, ok |-> ok, report |-> rep, text |-> text]
RetNone == Ret("None", FALSE, EmptyReport, <<>>)
RetBool(b) == Ret("bool", b, EmptyReport, <<>>)
RetReport(rep) == Ret("report", FALSE, rep, <<>>)
RetText(text) == Ret("text", FALSE, EmptyReport, text)
RetBytes(text) == Ret("bytes", FALSE, EmptyReport, text)

Call(op, arg, exc, ret) == [op |-> op, arg |-> arg, exc |-> exc, ret |-> ret]

\* datetime.now().strftime(...): the wall clock, read at each load
Timestamps == {<<"t1">>, <<"t2">>}

DataFrameName == <<"D", "a", "t", "a", "F", "r", "a", "m", "e">>
Csv == <<".", "c", "s", "v">>
Xlsx == <<".", "x", "l", "s", "x">>
Parquet == <<".", "p", "a", "r", "q", "u", "e", "t">>

\* self.file_name, as __init__ sets it
InitFileName(path, name) ==
    IF name # <<>> THEN name
    ELSE IF path # <<>> THEN Basename(path) ELSE DataFrameName

BasicInfo(name, d, ts) ==
    [file_name |-> name, total_rows |-> NRows(d), total_columns |-> NCols(d),
     load_timestamp |-> ts]

\* load_data; parsed is what the parser makes of the file (NoDF: it raises)
LoadData(fp, d, fn, rep, ts, parsed) ==
    IF d.some
    THEN [ok |-> TRUE, df |-> d, report |-> SetKey(rep, "basic_info", BasicInfo(fn, d, ts))]
    ELSE IF fp = <<>>
    THEN [ok |-> FALSE, df |-> d, report |-> rep]
    ELSE IF (EndsWith(fp, Csv) \/ EndsWith(fp, Xlsx) \/ EndsWith(fp, Parquet)) /\ parsed.some
    THEN [ok |-> TRUE, df |-> parsed,
          report |-> SetKey(rep, "basic_info", BasicInfo(Basename(fp), parsed, ts))]
    ELSE [ok |-> FALSE, df |-> d, report |-> rep]

\* the k-th check of run_all_checks
NthCheck(k, d, rep) ==
    CASE k = 1 -> CheckMissingValues(d, rep)
      [] k = 2 -> CheckDataTypes(d, rep)
      [] k = 3 -> CheckDuplicates(d, rep)
      [] k = 4 -> CheckNumericOutliers(d, rep)
      [] k = 5 -> CheckCardinality(d, rep)
      [] k = 6 -> GenerateSummaryStatistics(d, rep)
      [] k = 7 -> InspectColumnSamples(d, rep, DefaultSampleSize)

\* the k-th check after the checks before it: a raise ends the run
Then(k, d, r) == IF r.exc # NoExc THEN r ELSE NthCheck(k, d, r.report)

\* the mutant leaves out the last check
RunChecks_mut_short(d, rep) ==
    Then(6, d, Then(5, d, Then(4, d, Then(3, d, Then(2, d, NthCheck(1, d, rep))))))

\* the seven checks of run_all_checks, in its order
RunChecks(d, rep) ==
    Then(7, d, Then(6, d, Then(5, d, Then(4, d, Then(3, d, Then(2, d,
        NthCheck(1, d, rep)))))))

\* what run_all_checks gives once the checks ran on the loaded dataset:
\* the report, unless a check raised
AfterChecks(d, r) ==
    IF r.exc # NoExc
    THEN [exc |-> r.exc, ret |-> RetNone, df |-> d, report |-> r.report]
    ELSE [exc |-> NoExc, ret |-> RetReport(r.report), df |-> d, report |-> r.report]

\* the mutant runs the checks whether or not the load succeeded
AfterLoad_mut_noguard(l) == AfterChecks(l.df, RunChecks(l.df, l.report))

\* what run_all_checks gives after load_data gave l: None if the load failed
AfterLoad(l) ==
    IF ~l.ok THEN [exc |-> NoExc, ret |-> RetNone, df |-> l.df, report |-> l.report]
    ELSE AfterChecks(l.df, RunChecks(l.df, l.report))

\* run_all_checks: [exc, ret, df, report]
RunAllChecks(fp, d, fn, rep, ts, parsed) == AfterLoad(LoadData(fp, d, fn, rep, ts, parsed))

\* the text of a report that holds the three keys the formatting reads
TextReport(rep) ==
    LET basic == rep["basic_info"]
        missing == rep["missing_values"]
        dupes == rep["duplicates"]
        samples == IF "sample_inspection" \in DOMAIN rep
                   THEN rep["sample_inspection"] ELSE <<>>
    IN [file |-> basic.file_name,
        rows |-> basic.total_rows,
        columns |-> basic.total_columns,
        generated |-> basic.load_timestamp,
        total_missing |-> missing.total_missing,
        columns_with_missing |-> Len(missing.columns_with_missing),
        duplicate_rows |-> dupes.total_duplicate_rows,
        duplicate_percentage |-> Format1f(dupes.duplicate_percentage),
        samples |-> [i \in 1..Len(samples) |->
                        [col |-> samples[i].col,
                         detected_type |-> samples[i].detected_type,
                         sample_values |-> samples[i].sample_values,
                         notes |-> samples[i].notes]]]

\* the mutant runs the checks whatever the report holds
NeedsRun_mut_always(rep) == TRUE

\* not self.quality_report
NeedsRun(rep) == DOMAIN rep = {}

\* generate_text_report once the report is there: run is what the run of
\* the checks gave (or the engine as it was, when none was needed)
FormatReport(run) ==
    IF run.exc # NoExc THEN run
    ELSE IF ~({"basic_info", "missing_values", "duplicates"} \subseteq DOMAIN run.report)
    THEN [exc |-> KeyError, ret |-> RetNone, df |-> run.df, report |-> run.report]
    ELSE [exc |-> NoExc, ret |-> RetText(TextReport(run.report)),
          df |-> run.df, report |-> run.report]

\* generate_text_report: [exc, ret, df, report]
GenerateTextReport(fp, d, fn, rep, ts, parsed) ==
    FormatReport(IF NeedsRun(rep) THEN RunAllChecks(fp, d, fn, rep, ts, parsed)
                 ELSE [exc |-> NoExc, ret |-> RetNone, df |-> d, report |-> rep])

\* get_pdf_bytes once the text report is there: the bytes of the text and
\* of the describe table read from the report
PdfOf(t) ==
    IF t.exc # NoExc THEN t
    ELSE [exc |-> NoExc, ret |-> RetBytes(t.ret.text), df |-> t.df, report |-> t.report]

\* get_pdf_bytes: [exc, ret, df, report]
GetPdfBytes(fp, d, fn, rep, ts, parsed) ==
    PdfOf(GenerateTextReport(fp, d, fn, rep, ts, parsed))

-----------------------------------------------------------------------------
(* Datasets *)

\* the columns of r rows of one dtype over a set of cells
ColumnsOf(dtype, cells, r) == {[dtype |-> dtype, vals |-> v] : v \in [1..r -> cells]}

\* the frame of r rows whose columns are cs, named in order
Frame(cs, r) ==
    [some |-> TRUE, nrows |-> r,
     cols |-> [i \in 1..Len(cs) |->
                 [name |-> ColNames[i], dtype |-> cs[i].dtype, vals |-> cs[i].vals]]]

\* float64 and object columns over one value and the null
TinyColumns(r) ==
    ColumnsOf(Float64, {Null, Num(1)}, r) \cup ColumnsOf(Object, {Null, Str(<<"x">>)}, r)

\* the datasets of the lifecycle specification: one column of TinyColumns,
\* 0..LifeRows rows
LifeFrames == UNION {{Frame(<<c>>, r) : c \in TinyColumns(r)} : r \in 0..LifeRows}

\* what a parser call gives: a frame, or a raise (NoDF); the parser is
\* called only when no DataFrame is held and the path has a known suffix
Files(fp, d) ==
    IF ~d.some /\ (EndsWith(fp, Csv) \/ EndsWith(fp, Xlsx) \/ EndsWith(fp, Parquet))
    THEN LifeFrames \cup {NoDF}
    ELSE {NoDF}

CsvPath == <<"d", "/", "a", ".", "c", "s", "v">>
XlsxPath == <<"b", ".", "x", "l", "s", "x">>
ParquetPath == <<"c", ".", "p", "a", "r", "q", "u", "e", "t">>
TxtPath == <<"a", ".", "t", "x", "t">>
GivenName == <<"x">>

\* the engine as __init__(file_path, df, file_name) leaves it
Constructed(path, d, name) ==
    /\ file_path = path
    /\ df = d
    /\ file_name = InitFileName(path, name)
    /\ quality_report = EmptyReport
    /\ last = Call("__init__", 0, NoExc, RetNone)

\* engines built from a path, from a DataFrame, from both, or from neither
Init ==
    \E path \in {<<>>, CsvPath, XlsxPath, ParquetPath, TxtPath},
       d \in LifeFrames \cup {NoDF},
       name \in {<<>>, GivenName} :
        /\ d.some => path \in {<<>>, CsvPath}
        /\ Constructed(path, d, name)

\* the sample sizes a caller passes: the default, a smaller and a larger one
SampleSizes == {1, DefaultSampleSize, DefaultSampleSize + 2}

-----------------------------------------------------------------------------
(* The public methods *)

load_data ==
    \E ts \in Timestamps, parsed \in Files(file_path, df) :
        LET l == LoadData(file_path, df, file_name, quality_report, ts, parsed)
        IN /\ df' = l.df
           /\ quality_report' = l.report
           /\ last' = Call("load_data", 0, NoExc, RetBool(l.ok))
           /\ UNCHANGED <<file_path, file_name>>

\* a check called on its own: r is what the check gives
CheckCall(op, arg, r) ==
    /\ quality_report' = r.report
    /\ last' = Call(op, arg, r.exc, RetNone)
    /\ UNCHANGED <<file_path, df, file_name>>

check_missing_values ==
    CheckCall("check_missing_values", 0, CheckMissingValues(df, quality_report))

check_data_types ==
    CheckCall("check_data_types", 0, CheckDataTypes(df, quality_report))

check_duplicates ==
    CheckCall("check_duplicates", 0, CheckDuplicates(df, quality_report))

check_numeric_outliers ==
    CheckCall("check_numeric_outliers", 0, CheckNumericOutliers(df, quality_report))

check_cardinality ==
    CheckCall("check_cardinality", 0, CheckCardinality(df, quality_report))

generate_summary_statistics ==
    CheckCall("generate_summary_statistics", 0,
              GenerateSummaryStatistics(df, quality_report))

inspect_column_samples ==
    \E sample_size \in SampleSizes :
        CheckCall("inspect_column_samples", sample_size,
                  InspectColumnSamples(df, quality_report, sample_size))

\* a method that may load and run the checks: r is [exc, ret, df, report]
EngineCall(op, r) ==
    /\ df' = r.df
    /\ quality_report' = r.report
    /\ last' = Call(op, 0, r.exc, r.ret)
    /\ UNCHANGED <<file_path, file_name>>

run_all_checks ==
    \E ts \in Timestamps, parsed \in Files(file_path, df) :
        EngineCall("run_all_checks",
                   RunAllChecks(file_path, df, file_name, quality_report, ts, parsed))

generate_text_report ==
    \E ts \in Timestamps, parsed \in Files(file_path, df) :
        EngineCall("generate_text_report",
                   GenerateTextReport(file_path, df, file_name, quality_report, ts, parsed))

get_pdf_bytes ==
    \E ts \in Timestamps, parsed \in Files(file_path, df) :
        EngineCall("get_pdf_bytes",
                   GetPdfBytes(file_path, df, file_name, quality_report, ts, parsed))

Next ==
    \/ load_data
    \/ check_missing_values
    \/ check_data_types
    \/ check_duplicates
    \/ check_numeric_outliers
    \/ check_cardinality
    \/ generate_summary_statistics
    \/ inspect_column_samples
    \/ run_all_checks
    \/ generate_text_report
    \/ get_pdf_bytes

Spec == Init /\ [][Next]_vars

-----------------------------------------------------------------------------
(* Specifications of single checks: an engine built on a DataFrame, and    *)
(* the check called on it.                                                 *)

\* 1..FrameCols columns of TinyColumns, 0..FrameRows rows
InitFrames ==
    \E r \in 0..FrameRows, c \in 1..FrameCols :
        \E cs \in [1..c -> TinyColumns(r)] : Constructed(<<>>, Frame(cs, r), <<>>)

NextFrames == check_missing_values \/ check_duplicates

\* check_missing_values and check_duplicates on frames of several columns
SpecFrames == InitFrames /\ [][NextFrames]_vars

NumCells == {Num(-3), Num(0), Num(8)}

\* the kinds of column of the outlier specification: int64, float64 with
\* nulls, and a non-numeric one
OutlierKinds ==
    {[dtype |-> Int64, cells |-> NumCells],
     [dtype |-> Float64, cells |-> NumCells \cup {Null}],
     [dtype |-> Object, cells |-> {Null, Str(<<"x">>)}]}

\* one column of 0..OutlierRows rows
InitOutliers ==
    \E r \in 0..OutlierRows, kind \in OutlierKinds :
        \E v \in [1..r -> kind.cells] :
            Constructed(<<>>, Frame(<<[dtype |-> kind.dtype, vals |-> v]>>, r), <<>>)

NextOutliers == check_numeric_outliers

\* check_numeric_outliers on one column
SpecOutliers == InitOutliers /\ [][NextOutliers]_vars

TextCells ==
    {Null, Str(<<"7">>), Str(<<"2", ".", "5">>), Str(<<"3", "0">>),
     Str(<<"x">>), Str(<<"1", ".", "2", ".", "3">>)}

\* the kinds of column of the sample specification: text, text mixed with
\* a number, numeric and temporal
SampleKinds ==
    {[dtype |-> Object, cells |-> TextCells],
     [dtype |-> Object, cells |-> {Null, Str(<<"7">>), Num(7)}],
     [dtype |-> Float64, cells |-> {Null, Num(7)}],
     [dtype |-> Int64, cells |-> {Num(7), Num(30)}],
     [dtype |-> Datetime64, cells |-> {Null, Time(1)}]}

\* one column of 0..SampleRows rows
InitSamples ==
    \E r \in 0..SampleRows, kind \in SampleKinds :
        \E v \in [1..r -> kind.cells] :
            Constructed(<<>>, Frame(<<[dtype |-> kind.dtype, vals |-> v]>>, r), <<>>)

NextSamples == inspect_column_samples

\* inspect_column_samples on one column
SpecSamples == InitSamples /\ [][NextSamples]_vars

-----------------------------------------------------------------------------
(* The claims *)

AllKeys ==
    {"basic_info", "missing_values", "data_types", "duplicates", "outliers",
     "cardinality", "summary_statistics", "sample_inspection"}

CheckKeys == AllKeys \ {"basic_info"}

Has(key) == key \in DOMAIN quality_report

\* C1: a report that run_all_checks returns holds every one of the eight
\* keys (and is the engine's report).
C1_ReturnedReportIsComplete ==
    (last.op = "run_all_checks" /\ last.exc = NoExc /\ last.ret.kind = "report")
        => /\ AllKeys \subseteq DOMAIN last.ret.report
           /\ DOMAIN quality_report = DOMAIN last.ret.report

\* run_all_checks has returned a report
C1_Witness ==
    /\ last.op = "run_all_checks"
    /\ last.ret.kind = "report"
    /\ df.some

\* C2: when the load fails (the engine still holds no dataset after
\* run_all_checks), run_all_checks has not raised, has returned None, and
\* the report holds no key of any check (nor any key at all).
C2_LoadFailureGivesNoReport ==
    (last.op = "run_all_checks" /\ ~df.some)
        => /\ last.exc = NoExc
           /\ last.ret.kind = "None"
           /\ DOMAIN quality_report \cap CheckKeys = {}
           /\ DOMAIN quality_report = {}

\* run_all_checks has returned after the parser failed on a .csv path
C2_Witness ==
    /\ last.op = "run_all_checks"
    /\ ~df.some
    /\ EndsWith(file_path, Csv)
    /\ last.ret.kind = "None"

IsNumber(f) == f.k = "num"

\* C3 (as claimed): on a dataset of zero rows check_missing_values and
\* check_duplicates do not raise, every percentage they record is a number,
\* and the text report formats a number.
C3_ZeroRowsNoNaN ==
    (df.some /\ NRows(df) = 0)
        => /\ (last.op \in {"check_missing_values", "check_duplicates"}
                  => last.exc = NoExc)
           /\ (Has("missing_values")
                  => \A nm \in ColNameSet(df) :
                        IsNumber(quality_report["missing_values"]
                                     .missing_percentage_by_column[nm]))
           /\ (Has("duplicates")
                  => IsNumber(quality_report["duplicates"].duplicate_percentage))
           /\ (last.ret.kind = "text"
                  => last.ret.text.duplicate_percentage.k = "num")

\* the null entries of a column, counted over the row indices
NullRows(col) == {i \in 1..Len(col.vals) : col.vals[i].k = "null"}

\* C4: on a dataset with rows, missing_by_column and
\* missing_percentage_by_column have exactly the dataset's columns as keys,
\* the count of a column is the number of its null entries, and its
\* percentage is count / total_rows * 100.
C4_MissingPercentage ==
    (df.some /\ NRows(df) > 0 /\ Has("missing_values"))
        => LET m == quality_report["missing_values"]
           IN /\ DOMAIN m.missing_by_column = ColNameSet(df)
              /\ DOMAIN m.missing_percentage_by_column = ColNameSet(df)
              /\ \A i \in ColIdx(df) :
                    LET nm == df.cols[i].name
                        pct == m.missing_percentage_by_column[nm]
                    IN /\ m.missing_by_column[nm] = Cardinality(NullRows(df.cols[i]))
                       /\ IsNumber(pct)
                       /\ pct.den > 0
                       /\ pct.num * NRows(df) = m.missing_by_column[nm] * 100 * pct.den

\* a column with some, not all, of its entries null has been measured
C4_Witness ==
    /\ df.some /\ NRows(df) > 1 /\ Has("missing_values")
    /\ \E nm \in ColNameSet(df) :
          /\ quality_report["missing_values"].missing_by_column[nm] > 0
          /\ quality_report["missing_values"].missing_by_column[nm] < NRows(df)

\* row i equals the earlier row j on every column (null equal to null)
SameRow(d, i, j) == \A c \in ColIdx(d) : d.cols[c].vals[i] = d.cols[c].vals[j]

\* C5: on a dataset with rows, total_duplicate_rows is the number of rows
\* that equal an earlier row on all columns, and is at most total_rows - 1.
C5_DuplicateCount ==
    (df.some /\ NRows(df) > 0 /\ Has("duplicates"))
        => LET n == quality_report["duplicates"].total_duplicate_rows
           IN /\ n = Cardinality({i \in 1..NRows(df) :
                                     \E j \in 1..(i - 1) : SameRow(df, i, j)})
              /\ n <= NRows(df) - 1

\* a repeated row has been counted in a frame of two columns whose rows
\* are not all alike
C5_Witness ==
    /\ df.some /\ NCols(df) = 2 /\ Has("duplicates")
    /\ quality_report["duplicates"].total_duplicate_rows >= 1
    /\ quality_report["duplicates"].total_duplicate_rows < NRows(df) - 1

\* C6: every column of the outliers result is a numeric column with a
\* non-null value, its bounds are Q1 - 1.5 * IQR and Q3 + 1.5 * IQR, and
\* lower_bound <= Q1 <= Q3 <= upper_bound; a numeric column whose values
\* are all null is not in the result.
C6_OutlierBounds ==
    (df.some /\ Has("outliers"))
        => LET o == quality_report["outliers"]
           IN /\ \A i \in ColIdx(df) :
                    (IsNumeric(df.cols[i]) /\ \A j \in 1..NRows(df) : IsNull(df.cols[i].vals[j]))
                        => df.cols[i].name \notin DOMAIN o
              /\ \A nm \in DOMAIN o :
                    LET col == ColByName(df, nm)
                        q1 == Quantile4(SortedValues(col), 1)
                        q3 == Quantile4(SortedValues(col), 3)
                        lo == o[nm].lower_bound
                        hi == o[nm].upper_bound
                    IN /\ nm \in ColNameSet(df)
                       /\ IsNumeric(col)
                       /\ IsNumber(lo) /\ IsNumber(hi) /\ lo.den > 0 /\ hi.den > 0
                       \* lower_bound = Q1 - 1.5 * IQR, upper_bound = Q3 + 1.5 * IQR
                       /\ 8 * lo.num = (2 * q1 - 3 * (q3 - q1)) * lo.den
                       /\ 8 * hi.num = (2 * q3 + 3 * (q3 - q1)) * hi.den
                       \* lower_bound <= Q1 <= Q3 <= upper_bound
                       /\ 4 * lo.num <= q1 * lo.den
                       /\ q1 <= q3
                       /\ q3 * hi.den <= 4 * hi.num

\* a numeric column with nulls and a positive IQR is in the result
C6_Witness ==
    /\ df.some /\ Has("outliers")
    /\ \E nm \in DOMAIN quality_report["outliers"] :
          LET col == ColByName(df, nm)
          IN /\ Quantile4(SortedValues(col), 1) < Quantile4(SortedValues(col), 3)
             /\ \E j \in 1..NRows(df) : IsNull(col.vals[j])
             /\ quality_report["outliers"][nm].outlier_count > 0

\* the indices of the non-null entries of a column
NonNullRows(col) == {j \in 1..Len(col.vals) : col.vals[j].k # "null"}

\* the row where the display string s is first met in a column
FirstRow(col, s) ==
    CHOOSE j \in NonNullRows(col) :
        /\ AsStr(col.dtype, col.vals[j]) = s
        /\ \A h \in NonNullRows(col) : AsStr(col.dtype, col.vals[h]) = s => j <= h

InSeq(x, s) == \E p \in 1..Len(s) : s[p] = x

\* C7: at the default sample size, a column with no non-null value gets the
\* one placeholder; any other column gets at least one and at most
\* min(3, distinct non-null values) sample values, which are the display
\* strings of the column's non-null values, without repeats, in the order
\* they are first met, none left out before the limit is reached.
C7_SampleValues ==
    (df.some /\ Has("sample_inspection") /\ last.arg = DefaultSampleSize)
        => /\ Len(quality_report["sample_inspection"]) = NCols(df)
           /\ \A i \in ColIdx(df) :
                LET col == df.cols[i]
                    sv == quality_report["sample_inspection"][i].sample_values
                    distinct == Cardinality({col.vals[j] : j \in NonNullRows(col)})
                IN IF NonNullRows(col) = {}
                   THEN sv = <<NoValues>>
                   ELSE /\ Len(sv) >= 1
                        /\ Len(sv) <= DefaultSampleSize
                        /\ Len(sv) <= distinct
                        /\ \A p \in 1..Len(sv) :
                              \E j \in NonNullRows(col) : AsStr(col.dtype, col.vals[j]) = sv[p]
                        /\ \A p, q \in 1..Len(sv) :
                              p < q => FirstRow(col, sv[p]) < FirstRow(col, sv[q])
                        /\ \A j \in NonNullRows(col) :
                              ~InSeq(AsStr(col.dtype, col.vals[j]), sv)
                                  => /\ Len(sv) = DefaultSampleSize
                                     /\ \A p \in 1..Len(sv) : FirstRow(col, sv[p]) < j

\* a column with more than three distinct values, a null before them, has
\* been sampled at the default size
C7_Witness ==
    /\ df.some /\ Has("sample_inspection") /\ last.arg = DefaultSampleSize
    /\ \E i \in ColIdx(df) :
          /\ Cardinality({df.cols[i].vals[j] : j \in NonNullRows(df.cols[i])}) > DefaultSampleSize
          /\ IsNull(df.cols[i].vals[1])
          /\ Len(quality_report["sample_inspection"][i].sample_values) = DefaultSampleSize

\* a numeric literal: at most one ".", at least one digit, nothing else
NumericLiteral(s) ==
    LET dots == {i \in 1..Len(s) : s[i] = "."}
    IN /\ Cardinality(dots) <= 1
       /\ Len(s) > Cardinality(dots)
       /\ \A i \in (1..Len(s)) \ dots : s[i] \in Digits

\* C8: a column carries the note exactly when it is an object column and
\* strictly more than 60% of its sample values are numeric literals; a
\* column whose only sample is the placeholder carries none.
C8_NoteIffNumericText ==
    (df.some /\ Has("sample_inspection"))
        => \A i \in ColIdx(df) :
              LET e == quality_report["sample_inspection"][i]
                  sv == e.sample_values
                  literals == Cardinality({p \in 1..Len(sv) : NumericLiteral(sv[p])})
              IN /\ e.detected_type = df.cols[i].dtype
                 /\ (e.notes # <<>>)
                       <=> (df.cols[i].dtype = Object /\ 10 * literals > 6 * Len(sv))
                 /\ (sv = <<NoValues>> => e.notes = <<>>)

\* an object column three of whose five sample values are numeric literals
\* (exactly 60%) has been sampled, and carries no note
C8_Witness ==
    /\ df.some /\ Has("sample_inspection")
    /\ \E i \in ColIdx(df) :
          LET e == quality_report["sample_inspection"][i]
          IN /\ e.detected_type = Object
             /\ Len(e.sample_values) = 5
             /\ Cardinality({p \in 1..5 : NumericLiteral(e.sample_values[p])}) = 3
             /\ e.notes = <<>>

TextCall == last'.op \in {"generate_text_report", "get_pdf_bytes"}

\* C9 (as claimed): in every engine state, generate_text_report leaves the
\* dataset and the report as they are.
C9_TextReportChangesNothing ==
    [][last'.op = "generate_text_report" => (df' = df /\ quality_report' = quality_report)]_vars

\* C9 (amended): called on a report that is not empty, generate_text_report
\* (also when get_pdf_bytes calls it) leaves the dataset and the report as
\* they are, and the text it returns is the text of that report.
C9_TextReportOfNonEmptyReport ==
    [][(TextCall /\ DOMAIN quality_report # {})
          => /\ df' = df
             /\ quality_report' = quality_report
             /\ (last'.ret.kind \in {"text", "bytes"}
                    => last'.ret.text = TextReport(quality_report))]_vars

\* generate_text_report has returned a text of a report that only
\* individual calls filled (no data_types: run_all_checks never ran)
C9_Witness ==
    /\ last.op = "generate_text_report"
    /\ last.ret.kind = "text"
    /\ DOMAIN quality_report = {"basic_info", "missing_values", "duplicates"}

\* two reports that agree on everything but basic_info.load_timestamp
AgreeButTimestamp(r1, r2) ==
    /\ DOMAIN r1 = DOMAIN r2
    /\ \A k \in DOMAIN r1 \ {"basic_info"} : r1[k] = r2[k]
    /\ r1["basic_info"].file_name = r2["basic_info"].file_name
    /\ r1["basic_info"].total_rows = r2["basic_info"].total_rows
    /\ r1["basic_info"].total_columns = r2["basic_info"].total_columns

\* C10 (as claimed): two successive run_all_checks calls that both return a
\* report return reports that agree on every field but the load timestamp,
\* basic_info.file_name included.
C10_SuccessiveRunsAgree ==
    [][(/\ last.op = "run_all_checks" /\ last.ret.kind = "report"
        /\ last'.op = "run_all_checks" /\ last'.ret.kind = "report")
          => AgreeButTimestamp(last.ret.report, last'.ret.report)]_vars

\* C11 (as claimed): in every state the public methods reach,
\* generate_text_report finds basic_info, missing_values and duplicates in
\* the report it formats: it never raises KeyError, also not on a fresh
\* engine whose load fails, nor after load_data alone.
C11_TextReportFindsItsKeys ==
    last.op = "generate_text_report" => last.exc # KeyError

=============================================================================
